---- MODULE Spec2Model ----
(***************************************************************************)
(* Customer revenue dashboard (src/main.py): a Streamlit script that is    *)
(* re-run from top to bottom on every interaction.  The state is the       *)
(* uploaded file, the widgets' values, the memo of load_data and the       *)
(* tables the last run produced.  Amounts are whole numbers; a missing     *)
(* number (NaN) is a value of its own.                                     *)
(***************************************************************************)
EXTENDS Integers, Sequences, FiniteSets

(***************************************************************************)
(* Bounds of the explored inputs.                                          *)
(***************************************************************************)
MaxRows == 3
MaxCols == 4
MaxBigRows == 41
MaxCacheEntries == 2

(***************************************************************************)
(* Numbers as pandas holds them: a float that may be NaN or infinite.      *)
(***************************************************************************)
NaN == [nan |-> TRUE, v |-> 0]
Num(n) == [nan |-> FALSE, v |-> n]

None == [none |-> TRUE]

(***************************************************************************)
(* Text helpers.  Column names and customer names are atomic strings;      *)
(* strip and lower are given on the names that occur in the inputs.        *)
(***************************************************************************)
Strip(s) ==
    CASE s = " Sales " -> "Sales"
      [] s = "sales with tax " -> "sales with tax"
      [] OTHER -> s

Lower(s) ==
    CASE s = "Customer Name" -> "customer name"
      [] s = "Name" -> "name"
      [] s = "Sales" -> "sales"
      [] s = "SALES" -> "sales"
      [] s = "Sales With Tax" -> "sales with tax"
      [] s = "Region" -> "region"
      [] s = "Alice" -> "alice"
      [] s = "Bob" -> "bob"
      [] s = "TOTAL" -> "total"
      [] s = "Total" -> "total"
      [] OTHER -> s

SeqToSet(s) == {s[i] : i \in 1..Len(s)}

(***************************************************************************)
(* load_data: column normalisation and validation.                         *)
(***************************************************************************)
expected_columns == {"Customer Name", "Sales", "Sales With Tax"}

StripColumns(header) == [i \in 1..Len(header) |-> Strip(header[i])]

RenameOne(col) ==
    IF Lower(col) = "name" THEN "Customer Name"
    ELSE IF Lower(col) = "sales" THEN "Sales"
    ELSE IF Lower(col) = "sales with tax" THEN "Sales With Tax"
    ELSE col

RenameColumns(cols) == [i \in 1..Len(cols) |-> RenameOne(cols[i])]

NormalizedColumns(header) == RenameColumns(StripColumns(header))

ColumnsValid(cols) == SeqToSet(cols) = expected_columns

\* A label that names more than one column: selecting it yields a frame, not
\* a column, and the .str accessor of lines 44 and 49 does not exist on it.
HasDuplicateColumn(cols) == \E i, j \in 1..Len(cols) : i # j /\ cols[i] = cols[j]

(***************************************************************************)
(* load_data: numeric cleaning.  A cell is a sequence of characters; the   *)
(* rupee sign is the character "RUPEE".                                    *)
(***************************************************************************)
Digits == {"0", "1", "2", "3", "4", "5", "6", "7", "8", "9"}

DigitVal(c) ==
    CASE c = "0" -> 0 [] c = "1" -> 1 [] c = "2" -> 2 [] c = "3" -> 3
      [] c = "4" -> 4 [] c = "5" -> 5 [] c = "6" -> 6 [] c = "7" -> 7
      [] c = "8" -> 8 [] c = "9" -> 9

\* astype(str): an empty cell reads as NaN and prints as "nan".
AsTypeStr(cell) == IF cell = <<>> THEN <<"n", "a", "n">> ELSE cell

IsNotRupee(c) == c # "RUPEE"
IsNotComma(c) == c # ","
StrReplace(chars) == SelectSeq(SelectSeq(chars, IsNotRupee), IsNotComma)

RECURSIVE DigitsValue(_, _)
DigitsValue(chars, acc) ==
    IF chars = <<>> THEN acc
    ELSE DigitsValue(Tail(chars), acc * 10 + DigitVal(Head(chars)))

AllDigits(chars) == chars # <<>> /\ \A i \in 1..Len(chars) : chars[i] \in Digits

\* pd.to_numeric(errors="coerce"): whatever does not parse becomes NaN.
ToNumeric(chars) ==
    IF AllDigits(chars) THEN Num(DigitsValue(chars, 0))
    ELSE IF chars # <<>> /\ Head(chars) = "-" /\ AllDigits(Tail(chars))
         THEN Num(0 - DigitsValue(Tail(chars), 0))
    ELSE NaN

CleanNumeric(cell) == ToNumeric(StrReplace(AsTypeStr(cell)))

(***************************************************************************)
(* load_data: row filters.  A missing customer name is the value Missing.  *)
(***************************************************************************)
Missing == "<NA>"

NotNa(name) == name # Missing

\* A comparison that forgets to lower the name.
NotTotal_CaseSensitive(name) == name # "total"

NotTotal(name) == Lower(name) # "total"

KeepRow(row) == NotNa(row.name) /\ NotTotal(row.name)

\* The frame's rows keep their index label idx: the position in the sheet.
ParsedRows(rows) ==
    [i \in 1..Len(rows) |->
        [idx |-> i, name |-> rows[i].name,
         sales |-> CleanNumeric(rows[i].sales),
         swt |-> CleanNumeric(rows[i].swt)]]

FilterRows(rows) == SelectSeq(rows, KeepRow)

\* The outcome of one execution of load_data's body.
load_data(file) ==
    LET cols == NormalizedColumns(file.header) IN
    IF ~ColumnsValid(cols)
    THEN [outcome |-> "format_error", columns |-> cols, rows |-> <<>>]
    ELSE IF HasDuplicateColumn(cols)
    THEN [outcome |-> "exception", columns |-> cols, rows |-> <<>>]
    ELSE [outcome |-> "returned", columns |-> cols,
          rows |-> FilterRows(ParsedRows(file.rows))]

(***************************************************************************)
(* DataFrame.sort_values("Sales With Tax", ascending=False): the default   *)
(* kind is quicksort, which does not fix the order of rows with equal      *)
(* keys; rows with a missing key are put last, in their original order.    *)
(***************************************************************************)
IsNanRow(r) == r.swt.nan
IsNumRow(r) == ~r.swt.nan

\* An ascending sort (ascending=False left out).
RECURSIVE InsertAsc(_, _)
InsertAsc(r, sorted) ==
    IF sorted = <<>> THEN <<r>>
    ELSE IF Head(sorted).swt.v <= r.swt.v
         THEN <<Head(sorted)>> \o InsertAsc(r, Tail(sorted))
         ELSE <<r>> \o sorted

RECURSIVE InsertDesc(_, _)
InsertDesc(r, sorted) ==
    IF sorted = <<>> THEN <<r>>
    ELSE IF Head(sorted).swt.v >= r.swt.v
         THEN <<Head(sorted)>> \o InsertDesc(r, Tail(sorted))
         ELSE <<r>> \o sorted

RECURSIVE StableDesc(_)
StableDesc(rows) ==
    IF rows = <<>> THEN <<>>
    ELSE InsertDesc(rows[Len(rows)], StableDesc(SubSeq(rows, 1, Len(rows) - 1)))

Remove(s, i) == SubSeq(s, 1, i - 1) \o SubSeq(s, i + 1, Len(s))

RECURSIVE Perms(_)
Perms(s) ==
    IF s = <<>> THEN {<<>>}
    ELSE UNION {{<<s[i]>> \o p : p \in Perms(Remove(s, i))} : i \in 1..Len(s)}

\* Length of the leading run of rows whose key equals the first row's.
RECURSIVE TieLen(_)
TieLen(s) ==
    IF Len(s) <= 1 THEN Len(s)
    ELSE IF s[2].swt.v = s[1].swt.v THEN 1 + TieLen(Tail(s)) ELSE 1

RECURSIVE TieOrders(_)
TieOrders(s) ==
    IF s = <<>> THEN {<<>>}
    ELSE LET k == TieLen(s) IN
         {p \o q : p \in Perms(SubSeq(s, 1, k)),
                   q \in TieOrders(SubSeq(s, k + 1, Len(s)))}

\* Every order the sort may return for these rows.
sort_values(rows) ==
    {o \o SelectSeq(rows, IsNanRow) : o \in TieOrders(StableDesc(SelectSeq(rows, IsNumRow)))}

(***************************************************************************)
(* Dashboard: top 20 and the paginated view.                               *)
(***************************************************************************)
customers_per_page == 20

Min(a, b) == IF a <= b THEN a ELSE b

\* iloc[start:end] with 0-based, end-exclusive bounds.
ILoc(rows, start, end) == SubSeq(rows, Min(start, Len(rows)) + 1, Min(end, Len(rows)))

Head20(rows) == ILoc(rows, 0, 20)

\* A page count that rounds down.
TotalPages_Floor(n) == n \div customers_per_page

TotalPages(n) == (n + customers_per_page - 1) \div customers_per_page

StartIdx(pn) == (pn - 1) * customers_per_page

EndIdx(pn) == StartIdx(pn) + customers_per_page

PaginatedDf(scroll, pn) == ILoc(scroll, StartIdx(pn), EndIdx(pn))

(***************************************************************************)
(* Analytics: ABC segmentation.  A cumulative percent is the exact         *)
(* quotient num/den, or NaN, or an infinity (division by a zero total).    *)
(***************************************************************************)
PctNaN == [kind |-> "nan", num |-> 0, den |-> 1]

\* Series.sum() skips missing values.
RECURSIVE SumSwt(_)
SumSwt(rows) ==
    IF rows = <<>> THEN 0
    ELSE (IF Head(rows).swt.nan THEN 0 ELSE Head(rows).swt.v) + SumSwt(Tail(rows))

\* A running sum that does not accumulate.
CumSum_OwnValue(rows, i) == rows[i].swt

\* Series.cumsum() skips missing values and leaves NaN at their places.
CumSum(rows, i) == IF rows[i].swt.nan THEN NaN ELSE Num(SumSwt(SubSeq(rows, 1, i)))

\* A share that is not scaled to a percent.
CumulativePct_Fraction(cs, total) ==
    IF cs.nan THEN [kind |-> "nan", num |-> 0, den |-> 1]
    ELSE IF total = 0 THEN [kind |-> "nan", num |-> 0, den |-> 1]
    ELSE [kind |-> "fin", num |-> cs.v, den |-> total]

\* cumsum / total * 100 in floating point.
CumulativePct(cs, total) ==
    IF cs.nan THEN PctNaN
    ELSE IF total = 0
         THEN IF cs.v > 0 THEN [kind |-> "posinf", num |-> 0, den |-> 1]
              ELSE IF cs.v < 0 THEN [kind |-> "neginf", num |-> 0, den |-> 1]
              ELSE PctNaN
    ELSE [kind |-> "fin", num |-> cs.v * 100, den |-> total]

\* p <= c; every comparison with NaN is false.
PctLeq(p, c) ==
    \/ p.kind = "neginf"
    \/ /\ p.kind = "fin"
       /\ IF p.den > 0 THEN p.num <= c * p.den ELSE p.num >= c * p.den

\* Boundaries that exclude 80 and 95.
PctLt(p, c) ==
    \/ p.kind = "neginf"
    \/ /\ p.kind = "fin"
       /\ IF p.den > 0 THEN p.num < c * p.den ELSE p.num > c * p.den

classify_Strict(p) ==
    IF PctLt(p, 80) THEN "A"
    ELSE IF PctLt(p, 95) THEN "B"
    ELSE "C"

classify(p) ==
    IF PctLeq(p, 80) THEN "A"
    ELSE IF PctLeq(p, 95) THEN "B"
    ELSE "C"

DfSorted(sorted) ==
    LET total == SumSwt(sorted) IN
    [i \in 1..Len(sorted) |->
        LET p == CumulativePct(CumSum(sorted, i), total) IN
        [idx |-> sorted[i].idx, name |-> sorted[i].name, sales |-> sorted[i].sales,
         swt |-> sorted[i].swt, cum_pct |-> p, segment |-> classify(p)]]

SegmentDf(segmented, sel) ==
    LET InSel(r) == r.segment = sel IN
    IF sel = "All" THEN <<>> ELSE SelectSeq(segmented, InSel)

(***************************************************************************)
(* Analytics: outlier detection.  A comparison with NaN is false.          *)
(***************************************************************************)
LowRevenueCustomers(rows, low) ==
    LET IsLow(r) == ~r.swt.nan /\ r.swt.v < low IN SelectSeq(rows, IsLow)

\* A spike filter whose comparison points the wrong way.
HighSpikeCustomers_Below(rows, high) ==
    LET IsHigh(r) == ~r.swt.nan /\ r.swt.v < high IN SelectSeq(rows, IsHigh)

HighSpikeCustomers(rows, high) ==
    LET IsHigh(r) == ~r.swt.nan /\ r.swt.v > high IN SelectSeq(rows, IsHigh)

(***************************************************************************)
(* Analytics: the download, df.to_csv(index=False): the header row and the *)
(* rows without their index label.                                         *)
(***************************************************************************)
ToCsv(frame) ==
    [header |-> frame.columns,
     rows |-> [i \in 1..Len(frame.rows) |->
                  [name |-> frame.rows[i].name, sales |-> frame.rows[i].sales,
                   swt |-> frame.rows[i].swt]]]

(***************************************************************************)
(* The uploaded sheets that are explored.  A sheet is its header row and   *)
(* its data rows; a data row gives the cells under the columns that the    *)
(* normalisation names Customer Name, Sales and Sales With Tax.            *)
(***************************************************************************)
HeaderPool ==
    <<"Customer Name", "customer name", "Name", " Sales ", "SALES",
      "Sales With Tax", "sales with tax ", "Region">>

GoodHeader == <<"Name", " Sales ", "sales with tax ">>

RECURSIVE PickFrom(_, _, _)
PickFrom(pool, picked, i) ==
    IF i > Len(pool) THEN <<>>
    ELSE (IF i \in picked THEN <<pool[i]>> ELSE <<>>) \o PickFrom(pool, picked, i + 1)

Headers ==
    {PickFrom(HeaderPool, picked, 1) :
        picked \in {x \in SUBSET (1..Len(HeaderPool)) :
                        Cardinality(x) >= 1 /\ Cardinality(x) <= MaxCols}}

NameCells == {Missing, "Alice", "TOTAL", "Total"}

ValueCells ==
    {<<"n", "/", "a">>, <<"-", "1">>, <<"0">>, <<"1">>, <<"RUPEE", "8">>,
     <<"RUPEE", "1", ",", "0", "0", ",", "0", "0", "1">>}

SeqsUpTo(S, n) == UNION {[1..k -> S] : k \in 0..n}

DefaultName(i) == IF i % 2 = 1 THEN "Alice" ELSE "Bob"

DefaultCell(i) == IF i = 1 THEN <<"RUPEE", "8">> ELSE <<"1">>

DigitChar(d) ==
    CASE d = 0 -> "0" [] d = 1 -> "1" [] d = 2 -> "2" [] d = 3 -> "3"
      [] d = 4 -> "4" [] d = 5 -> "5" [] d = 6 -> "6" [] d = 7 -> "7"
      [] d = 8 -> "8" [] d = 9 -> "9"

RECURSIVE Decimal(_)
Decimal(n) == IF n < 10 THEN <<DigitChar(n)>> ELSE Decimal(n \div 10) \o <<DigitChar(n % 10)>>

HeaderFiles ==
    {[header |-> h,
      rows |-> <<[name |-> "Alice", sales |-> <<"1">>, swt |-> <<"RUPEE", "8">>],
                 [name |-> "TOTAL", sales |-> <<"1">>, swt |-> <<"RUPEE", "8">>]>>] :
        h \in Headers}

NameFiles ==
    {[header |-> GoodHeader,
      rows |-> [i \in 1..Len(ns) |->
                   [name |-> ns[i], sales |-> <<"1">>, swt |-> DefaultCell(i)]]] :
        ns \in SeqsUpTo(NameCells, MaxRows)}

ValueFiles ==
    {[header |-> GoodHeader,
      rows |-> [i \in 1..Len(vs) |->
                   [name |-> DefaultName(i), sales |-> <<"1">>, swt |-> vs[i]]]] :
        vs \in SeqsUpTo(ValueCells, MaxRows)}

\* Long sheets, of the lengths next to a page boundary: row i holds the
\* amount i, or the last row repeats the first row's amount.
BigLengths ==
    {n \in (MaxRows + 1)..MaxBigRows :
        n % customers_per_page \in {0, 1, customers_per_page - 1}}

BigFiles ==
    {[header |-> GoodHeader,
      rows |-> [i \in 1..n |->
                   [name |-> DefaultName(i), sales |-> <<"1">>,
                    swt |-> Decimal(IF tie /\ i = n THEN 1 ELSE i)]]] :
        n \in BigLengths, tie \in BOOLEAN}

Files == HeaderFiles \cup NameFiles \cup ValueFiles \cup BigFiles

\* The sheets of the sessions that upload several files: two that load
\* (one of them an empty table), a long one, and two that do not load.
CacheFiles ==
    {f \in ValueFiles : Len(f.rows) = 2 /\ f.rows[1].swt = <<"1">>
                         /\ f.rows[2].swt \in {<<"1">>, <<"RUPEE", "8">>}}
    \cup {f \in NameFiles : Len(f.rows) = 1 /\ f.rows[1].name = "TOTAL"}
    \cup {f \in BigFiles : Len(f.rows) = customers_per_page + 1
                            /\ f.rows[Len(f.rows)].swt # <<"1">>}
    \cup {f \in HeaderFiles :
            f.header \in {<<"Customer Name", "SALES", "Region">>,
                          <<"Customer Name", "Name", " Sales ", "Sales With Tax">>}}

(***************************************************************************)
(* The widgets.                                                            *)
(***************************************************************************)
Dashboard == "Dashboard"
Analytics == "Analytics"
Pages == {Dashboard, Analytics}

SegmentOptions == {"All", "A", "B", "C"}

\* The sliders' values that are explored, within the sliders' ranges.
LowValues == {0, 5000, 100000}
HighValues == {100000, 300000, 1000000}

DefaultLow == 5000
DefaultHigh == 300000

(***************************************************************************)
(* State.                                                                  *)
(***************************************************************************)
VARIABLES
    uploaded_file,                  \* the file_uploader's file, or None
    page,                           \* the navigation radio
    page_num,                       \* the page number_input
    selected_segment,               \* the segment selectbox
    low_revenue_threshold,          \* the low slider
    high_revenue_spike_threshold,   \* the high slider
    cache,                          \* st.cache_data's memo: file -> frame
    parsed,                         \* the last run executed load_data's body
    status,                         \* how the last run ended
    df,                             \* the frame load_data returned to the last run
    shown,                          \* the outputs the last run rendered
    top_20, scroll_df, total_pages, paginated_df,
    df_sorted, segment_df, low_revenue_customers, high_spike_customers,
    csv

vars ==
    <<uploaded_file, page, page_num, selected_segment, low_revenue_threshold,
      high_revenue_spike_threshold, cache, parsed, status, df, shown,
      top_20, scroll_df, total_pages, paginated_df, df_sorted, segment_df,
      low_revenue_customers, high_spike_customers, csv>>

NoFrame == [columns |-> <<>>, rows |-> <<>>]

(***************************************************************************)
(* One run of the script (lines 53-203), as the parts of the next state.   *)
(***************************************************************************)
\* A memo that never answers.
CacheHit_Never(c, file) == FALSE

\* st.cache_data: the body runs only for a file the memo does not hold.
CacheHit(c, file) == file \in DOMAIN c

CacheStore(c, file, frame) ==
    [f \in DOMAIN c \cup {file} |-> IF f = file THEN frame ELSE c[f]]

\* What the call load_data(uploaded_file) of line 54 yields under memo c.
CachedLoad(c, file) ==
    IF CacheHit(c, file)
    THEN [outcome |-> "returned", frame |-> c[file], ran |-> FALSE, memo |-> c]
    ELSE LET r == load_data(file)
             frame == [columns |-> r.columns, rows |-> r.rows] IN
         IF r.outcome = "returned"
         THEN [outcome |-> "returned", frame |-> frame, ran |-> TRUE,
               memo |-> CacheStore(c, file, frame)]
         ELSE [outcome |-> r.outcome, frame |-> NoFrame, ran |-> TRUE, memo |-> c]

NoDashboardOutput ==
    /\ top_20' = <<>>
    /\ scroll_df' = <<>>
    /\ total_pages' = 0
    /\ paginated_df' = <<>>
    /\ page_num' = 1

NoAnalyticsOutput ==
    /\ df_sorted' = <<>>
    /\ segment_df' = <<>>
    /\ low_revenue_customers' = <<>>
    /\ high_spike_customers' = <<>>
    /\ csv' = None
    /\ selected_segment' = "All"
    /\ low_revenue_threshold' = DefaultLow
    /\ high_revenue_spike_threshold' = DefaultHigh

\* A run that renders no view: no file (line 203), st.stop() (line 39), or an
\* exception inside load_data.
Halted(st, message) ==
    /\ status' = st
    /\ df' = NoFrame
    /\ shown' = {message}
    /\ NoDashboardOutput
    /\ NoAnalyticsOutput

\* st.number_input(min_value=1, max_value=total): the value defaults to
\* min_value, and a value above max_value is rejected with an exception.
NumberInputFails(total) == 1 > total

\* Lines 57-114.
RunDashboard(frame, sorted, pn) ==
    LET total == TotalPages(Len(sorted)) IN
    /\ df' = frame
    /\ top_20' = Head20(sorted)
    /\ scroll_df' = sorted
    /\ total_pages' = total
    /\ IF NumberInputFails(total)
       THEN /\ status' = "widget_error"
            /\ page_num' = 1
            /\ paginated_df' = <<>>
            /\ shown' = {"raw", "metrics", "top_20", "exception"}
       ELSE /\ status' = "ok"
            /\ page_num' = pn
            /\ paginated_df' = PaginatedDf(sorted, pn)
            /\ shown' = {"raw", "metrics", "top_20", "paginated"}
    /\ NoAnalyticsOutput

\* Lines 116-200.
RunAnalytics(frame, sorted, seg, low, high) ==
    /\ df' = frame
    /\ status' = "ok"
    /\ df_sorted' = DfSorted(sorted)
    /\ selected_segment' = seg
    /\ segment_df' = SegmentDf(DfSorted(sorted), seg)
    /\ low_revenue_threshold' = low
    /\ high_revenue_spike_threshold' = high
    /\ low_revenue_customers' = LowRevenueCustomers(frame.rows, low)
    /\ high_spike_customers' = HighSpikeCustomers(frame.rows, high)
    /\ csv' = ToCsv(frame)
    /\ shown' = {"segmented", "segments", "pareto", "outliers", "download"}
                  \cup (IF seg = "All" THEN {"info"} ELSE {"segment_df"})
    /\ NoDashboardOutput

\* The sort is a function of its input: for the frame the last run sorted it
\* returns the order it returned then, for another frame any of its orders.
RowWithIdx(rows, idx) == rows[CHOOSE k \in 1..Len(rows) : rows[k].idx = idx]

LastSorted == IF page = Dashboard THEN scroll_df ELSE df_sorted

SortOutcomes(frame) ==
    IF status \in {"ok", "widget_error"} /\ df = frame
    THEN {[i \in 1..Len(LastSorted) |-> RowWithIdx(frame.rows, LastSorted[i].idx)]}
    ELSE sort_values(frame.rows)

\* The page widget keeps its value while its max_value is the same widget's.
KeptPageNum(total) == IF total_pages = total THEN page_num ELSE 1

\* The whole script, run with the widgets at the given values; pn is the
\* page the user picked, or 0 when the page widget was not touched.
Rerun(file, pg, pn, seg, low, high) ==
    /\ uploaded_file' = file
    /\ page' = pg
    /\ IF file = None
       THEN /\ Halted("no_file", "info")
            /\ cache' = cache
            /\ parsed' = FALSE
       ELSE LET got == CachedLoad(cache, file) IN
            /\ cache' = got.memo
            /\ parsed' = got.ran
            /\ IF got.outcome = "format_error" THEN Halted("format_error", "error")
               ELSE IF got.outcome = "exception" THEN Halted("load_error", "exception")
               ELSE \E sorted \in SortOutcomes(got.frame) :
                       IF pg = Dashboard
                       THEN RunDashboard(got.frame, sorted,
                               IF pn = 0 THEN KeptPageNum(TotalPages(Len(sorted))) ELSE pn)
                       ELSE RunAnalytics(got.frame, sorted, seg, low, high)

(***************************************************************************)
(* The interactions; each one re-runs the script.                          *)
(***************************************************************************)
Init ==
    /\ uploaded_file = None
    /\ page = Dashboard
    /\ page_num = 1
    /\ selected_segment = "All"
    /\ low_revenue_threshold = DefaultLow
    /\ high_revenue_spike_threshold = DefaultHigh
    /\ cache = <<>>
    /\ parsed = FALSE
    /\ status = "no_file"
    /\ df = NoFrame
    /\ shown = {"info"}
    /\ top_20 = <<>>
    /\ scroll_df = <<>>
    /\ total_pages = 0
    /\ paginated_df = <<>>
    /\ df_sorted = <<>>
    /\ segment_df = <<>>
    /\ low_revenue_customers = <<>>
    /\ high_spike_customers = <<>>
    /\ csv = None

Upload(file) ==
    Rerun(file, page, 0, selected_segment, low_revenue_threshold,
          high_revenue_spike_threshold)

RemoveFile ==
    /\ uploaded_file # None
    /\ Rerun(None, page, 0, selected_segment, low_revenue_threshold,
             high_revenue_spike_threshold)

Navigate ==
    \E pg \in Pages :
        /\ pg # page
        /\ Rerun(uploaded_file, pg, 0, selected_segment, low_revenue_threshold,
                 high_revenue_spike_threshold)

PageRendered == status = "ok" /\ page = Dashboard
AnalyticsRendered == status = "ok" /\ page = Analytics

SetPageNum ==
    /\ PageRendered
    /\ \E pn \in 1..total_pages :
          /\ pn # page_num
          /\ Rerun(uploaded_file, page, pn, selected_segment, low_revenue_threshold,
                   high_revenue_spike_threshold)

SelectSegment ==
    /\ AnalyticsRendered
    /\ \E seg \in SegmentOptions :
          /\ seg # selected_segment
          /\ Rerun(uploaded_file, page, 0, seg, low_revenue_threshold,
                   high_revenue_spike_threshold)

SetLowThreshold ==
    /\ AnalyticsRendered
    /\ \E low \in LowValues :
          /\ low # low_revenue_threshold
          /\ Rerun(uploaded_file, page, 0, selected_segment, low,
                   high_revenue_spike_threshold)

SetHighThreshold ==
    /\ AnalyticsRendered
    /\ \E high \in HighValues :
          /\ high # high_revenue_spike_threshold
          /\ Rerun(uploaded_file, page, 0, selected_segment, low_revenue_threshold, high)

Interact ==
    \/ RemoveFile
    \/ Navigate
    \/ SetPageNum
    \/ SelectSegment
    \/ SetLowThreshold
    \/ SetHighThreshold

\* Sessions that work on one sheet: it is uploaded when no file is held.
UploadOne ==
    /\ uploaded_file = None
    /\ \E file \in Files : DOMAIN cache \subseteq {file} /\ Upload(file)

\* Sessions that replace the sheet, within the memo's explored size.
UploadAny ==
    \E file \in CacheFiles :
        /\ file \in DOMAIN cache \/ Cardinality(DOMAIN cache) < MaxCacheEntries
        /\ Upload(file)

Next == UploadOne \/ Interact

NextCache == UploadAny \/ Interact

Spec == Init /\ [][Next]_vars

SpecCache == Init /\ [][NextCache]_vars

(***************************************************************************)
(* Properties.                                                             *)
(***************************************************************************)
Loaded == status \in {"ok", "widget_error"}
DashboardRan == Loaded /\ page = Dashboard
AnalyticsRan == status = "ok" /\ page = Analytics

NoViewOutput ==
    /\ shown \cap {"raw", "metrics", "top_20", "paginated", "segmented", "segments",
                   "segment_df", "pareto", "outliers", "download"} = {}
    /\ top_20 = <<>> /\ scroll_df = <<>> /\ paginated_df = <<>>
    /\ df_sorted = <<>> /\ segment_df = <<>>
    /\ low_revenue_customers = <<>> /\ high_spike_customers = <<>>
    /\ csv = None

\* C1: for every uploaded header row, load_data either returns a table whose
\* column set is exactly {Customer Name, Sales, Sales With Tax}, or the run
\* ends with the format error and renders no ranking, pagination,
\* segmentation, outlier or download output.
C1_ReturnsOrFormatError ==
    uploaded_file # None =>
        \/ Loaded /\ SeqToSet(df.columns) = {"Customer Name", "Sales", "Sales With Tax"}
        \/ status = "format_error" /\ shown = {"error"} /\ NoViewOutput

\* How a run ends when the header row names a column twice after trimming
\* and renaming.
C1_DuplicateColumnRun ==
    (uploaded_file # None /\ HasDuplicateColumn(NormalizedColumns(uploaded_file.header))
        /\ ColumnsValid(NormalizedColumns(uploaded_file.header)))
    => status = "load_error"

RECURSIVE ConcatPages(_, _, _)
ConcatPages(scroll, n, last) ==
    IF n > last THEN <<>>
    ELSE PaginatedDf(scroll, n) \o ConcatPages(scroll, n + 1, last)

\* C2: pages 1..pageCount of the sorted table, each the rows
\* [(N-1)*20, N*20), concatenated in order are the sorted table itself, and
\* the page shown is page page_num of it.
C2_PagesReproduceSorted ==
    DashboardRan =>
        /\ ConcatPages(scroll_df, 1, total_pages) = scroll_df
        /\ status = "ok" =>
             /\ Len(paginated_df) = Min(20, Len(scroll_df) - (page_num - 1) * 20)
             /\ \A k \in 1..Len(paginated_df) :
                    paginated_df[k] = scroll_df[(page_num - 1) * 20 + k]

C2_Witness ==
    /\ DashboardRan /\ status = "ok"
    /\ total_pages = 3 /\ page_num = 3
    /\ Len(paginated_df) = 1
    /\ paginated_df[1] = scroll_df[41]

SegmentRank(seg) == CASE seg = "A" -> 1 [] seg = "B" -> 2 [] seg = "C" -> 3 [] OTHER -> 0

\* C3: in the segmented table, which is in descending Sales With Tax order,
\* every segment is A, B or C and no A follows a B or C, no B follows a C.
C3_SegmentsMonotone ==
    AnalyticsRan =>
        /\ \A i \in 1..Len(df_sorted) : df_sorted[i].segment \in {"A", "B", "C"}
        /\ \A i, j \in 1..Len(df_sorted) :
              i < j => SegmentRank(df_sorted[i].segment) <= SegmentRank(df_sorted[j].segment)

C3_Witness ==
    /\ AnalyticsRan
    /\ Len(df_sorted) = 3
    /\ df_sorted[1].segment = "A" /\ df_sorted[2].segment = "B" /\ df_sorted[3].segment = "C"

IsHundred(p) == p.kind = "fin" /\ p.num = 100 * p.den

\* C4: when the total Sales With Tax is not zero, the cumulative percent of
\* the last record of the segmented table is 100.
C4_LastCumulativePctIs100 ==
    (AnalyticsRan /\ df_sorted # <<>> /\ SumSwt(df.rows) # 0)
        => IsHundred(df_sorted[Len(df_sorted)].cum_pct)

\* C4 as amended: when the total is not zero, the last record that has a
\* Sales With Tax amount is at 100; the records without an amount follow it
\* and have no cumulative percent.
C4_LastNumericIs100 ==
    (AnalyticsRan /\ SumSwt(df.rows) # 0) =>
        \A i \in 1..Len(df_sorted) :
            /\ (~df_sorted[i].swt.nan /\ (i = Len(df_sorted) \/ df_sorted[i + 1].swt.nan))
                  => IsHundred(df_sorted[i].cum_pct)
            /\ df_sorted[i].swt.nan
                  => /\ df_sorted[i].cum_pct.kind = "nan"
                     /\ \A j \in i..Len(df_sorted) : df_sorted[j].swt.nan

C4_Witness ==
    /\ AnalyticsRan
    /\ Len(df_sorted) = 3
    /\ ~df_sorted[1].swt.nan /\ ~IsHundred(df_sorted[1].cum_pct)
    /\ ~df_sorted[2].swt.nan /\ IsHundred(df_sorted[2].cum_pct)
    /\ df_sorted[3].swt.nan /\ df_sorted[3].cum_pct.kind = "nan"

\* num/den <= c and num/den > c for a finite percent, by the sign of den.
FinLeq(p, c) ==
    /\ p.kind = "fin"
    /\ (p.den > 0 /\ p.num <= c * p.den) \/ (p.den < 0 /\ p.num >= c * p.den)

FinGt(p, c) ==
    /\ p.kind = "fin"
    /\ (p.den > 0 /\ p.num > c * p.den) \/ (p.den < 0 /\ p.num < c * p.den)

\* C5: a record is A when its cumulative percent is <= 80, B when it is
\* above 80 and <= 95, C above 95; a record at exactly 80 is A.
C5_InclusiveBoundaries ==
    AnalyticsRan =>
        \A i \in 1..Len(df_sorted) :
            LET r == df_sorted[i] IN
            /\ FinLeq(r.cum_pct, 80) => r.segment = "A"
            /\ (FinGt(r.cum_pct, 80) /\ FinLeq(r.cum_pct, 95)) => r.segment = "B"
            /\ FinGt(r.cum_pct, 95) => r.segment = "C"
            /\ r.cum_pct.kind \in {"nan", "posinf"} => r.segment = "C"
            /\ r.cum_pct.kind = "neginf" => r.segment = "A"

C5_Witness ==
    /\ AnalyticsRan
    /\ \E i, j \in 1..Len(df_sorted) :
          /\ df_sorted[i].cum_pct.kind = "fin"
          /\ df_sorted[i].cum_pct.num = 80 * df_sorted[i].cum_pct.den
          /\ df_sorted[i].segment = "A"
          /\ FinGt(df_sorted[j].cum_pct, 80)
          /\ df_sorted[j].segment = "B"

\* The sorted table of the last run.
SortedView == IF page = Dashboard THEN scroll_df ELSE df_sorted
SortedRan == DashboardRan \/ AnalyticsRan

\* C6: the sorted views order rows by Sales With Tax descending and rows
\* with equal Sales With Tax keep their order in the cleaned table.
C6_StableSort ==
    SortedRan =>
        \A i, j \in 1..Len(SortedView) :
            LET a == SortedView[i]
                b == SortedView[j] IN
            /\ (i < j /\ ~a.swt.nan /\ ~b.swt.nan) => a.swt.v >= b.swt.v
            /\ (i < j /\ ~a.swt.nan /\ ~b.swt.nan /\ a.swt.v = b.swt.v) => a.idx < b.idx

\* C6 as amended: the sorted views hold every row of the cleaned table once,
\* by Sales With Tax descending, rows without an amount last in their
\* original order; the top 20 are the first 20 of that order.
C6_SortedDescending ==
    SortedRan =>
        /\ Len(SortedView) = Len(df.rows)
        /\ \A k \in 1..Len(df.rows) :
              \E i \in 1..Len(SortedView) :
                  /\ SortedView[i].idx = df.rows[k].idx
                  /\ SortedView[i].name = df.rows[k].name
                  /\ SortedView[i].swt = df.rows[k].swt
        /\ \A i, j \in 1..Len(SortedView) :
              LET a == SortedView[i]
                  b == SortedView[j] IN
              i < j =>
                  /\ ~a.swt.nan \/ b.swt.nan
                  /\ (~a.swt.nan /\ ~b.swt.nan) => a.swt.v >= b.swt.v
                  /\ (a.swt.nan /\ b.swt.nan) => a.idx < b.idx
        /\ page = Dashboard => top_20 = SubSeq(scroll_df, 1, Min(20, Len(scroll_df)))

\* Rows with equal amounts come out in the reverse of their original order,
\* after a row with a larger amount.
C6_Witness ==
    /\ SortedRan
    /\ \E i, j, k \in 1..Len(SortedView) :
          /\ i < j /\ j < k
          /\ ~SortedView[i].swt.nan /\ ~SortedView[j].swt.nan /\ ~SortedView[k].swt.nan
          /\ SortedView[i].swt.v > SortedView[j].swt.v
          /\ SortedView[j].swt.v = SortedView[k].swt.v
          /\ SortedView[j].idx > SortedView[k].idx

\* C7: the page count is ceil(rows / 20) and, for every cleaned table, an
\* empty one too, the page number of the paginated view is in [1, pageCount].
C7_PageNumWithinPageCount ==
    DashboardRan =>
        /\ total_pages * 20 >= Len(df.rows)
        /\ (total_pages - 1) * 20 < Len(df.rows)
        /\ page_num \in 1..total_pages

\* The part of C7 the empty table does not reach.
C7_SlicedPageWithinPageCount ==
    (DashboardRan /\ "paginated" \in shown) =>
        /\ total_pages * 20 >= Len(df.rows)
        /\ (total_pages - 1) * 20 < Len(df.rows)
        /\ page_num \in 1..total_pages

IdxSet(rows) == {rows[i].idx : i \in 1..Len(rows)}

\* C8: the low-revenue rows and the spike rows have no row in common when
\* the low threshold is below the high one, and for every pair of values the
\* two sliders allow.
C8_OutlierSetsDisjoint ==
    AnalyticsRan =>
        /\ low_revenue_threshold \in 0..100000
        /\ high_revenue_spike_threshold \in 100000..1000000
        /\ IdxSet(low_revenue_customers) \cap IdxSet(high_spike_customers) = {}
        /\ \A k \in 1..Len(df.rows) :
              LET r == df.rows[k] IN
              /\ r.idx \in IdxSet(low_revenue_customers)
                    <=> (~r.swt.nan /\ r.swt.v < low_revenue_threshold)
              /\ r.idx \in IdxSet(high_spike_customers)
                    <=> (~r.swt.nan /\ r.swt.v > high_revenue_spike_threshold)

C8_Witness ==
    /\ AnalyticsRan
    /\ low_revenue_threshold = 100000
    /\ high_revenue_spike_threshold = 100000
    /\ low_revenue_customers # <<>>
    /\ high_spike_customers # <<>>

DroppedNames == {Missing, "TOTAL", "Total", "total"}

RECURSIVE KeptIndexes(_, _)
KeptIndexes(rows, i) ==
    IF i > Len(rows) THEN <<>>
    ELSE (IF rows[i].name \in DroppedNames THEN <<>> ELSE <<i>>) \o KeptIndexes(rows, i + 1)

\* C9: every row of the returned table has a Customer Name that is present
\* and is not "total" in any letter case; every other row of the sheet is
\* kept, in the sheet's order.
C9_NamesPresentNotTotal ==
    Loaded =>
        /\ \A k \in 1..Len(df.rows) : df.rows[k].name \notin DroppedNames
        /\ [k \in 1..Len(df.rows) |-> df.rows[k].idx] = KeptIndexes(uploaded_file.rows, 1)
        /\ \A k \in 1..Len(df.rows) :
              df.rows[k].name = uploaded_file.rows[df.rows[k].idx].name

C9_Witness ==
    /\ Loaded
    /\ Len(uploaded_file.rows) = 3
    /\ uploaded_file.rows[1].name = "TOTAL"
    /\ uploaded_file.rows[2].name = Missing
    /\ Len(df.rows) = 1
    /\ df.rows[1].idx = 3

\* C10: the cleaned table of a file is produced once and no interaction
\* changes it: a memo entry never changes or disappears, load_data's body
\* runs only for a file the memo does not hold, the table handed to a run
\* is the memo's, and it is the same in every run on the same file; the
\* download holds it as it is.
C10_CleanedTableUnchanged ==
    [][/\ \A f \in DOMAIN cache : f \in DOMAIN cache' /\ cache'[f] = cache[f]
       /\ (parsed' /\ uploaded_file' # None) => uploaded_file' \notin DOMAIN cache
       /\ status' \in {"ok", "widget_error"} =>
             /\ uploaded_file' \in DOMAIN cache'
             /\ df' = cache'[uploaded_file']
             /\ uploaded_file' \in DOMAIN cache => (~parsed' /\ df' = cache[uploaded_file'])
       /\ (status \in {"ok", "widget_error"} /\ status' \in {"ok", "widget_error"}
             /\ uploaded_file' = uploaded_file) => df' = df
       /\ (status' = "ok" /\ page' = Analytics) =>
             /\ csv'.header = df'.columns
             /\ Len(csv'.rows) = Len(df'.rows)
             /\ \A k \in 1..Len(df'.rows) :
                    /\ csv'.rows[k].name = df'.rows[k].name
                    /\ csv'.rows[k].sales = df'.rows[k].sales
                    /\ csv'.rows[k].swt = df'.rows[k].swt]_vars

\* A run on a file loaded earlier, with another file loaded in between.
C10_Witness ==
    /\ AnalyticsRan
    /\ Cardinality(DOMAIN cache) = 2
    /\ ~parsed
    /\ selected_segment = "B"
    /\ low_revenue_threshold = 0
    /\ df.rows # <<>>

====
